---- MODULE Spec2Model ----
(***************************************************************************)
(* Model of the NovaAgent OCR services (server/ocr_service.py and          *)
(* server/simple_ocr_service.py): the /extract handlers, the PDF           *)
(* classifier, the digital and scanned extraction strategies, the OCR      *)
(* cascade, the table extractor and the lazily built PaddleOCR handle.     *)
(*                                                                         *)
(* Strings are sequences of characters.  The character "W" stands for a    *)
(* fixed run of WordLen non-blank characters, so that page texts long      *)
(* enough to cross the classifier's threshold stay small values.           *)
(* Confidences are kept in hundredths: 87 stands for 0.87, 100 for 1.0.    *)
(***************************************************************************)
EXTENDS Integers, Sequences, FiniteSets, TLC

\* ---------------------------------------------------------------- bounds
MaxPages == 2
NumRequests == 2
WordLen == 99

\* ------------------------------------------------------------- variables
VARIABLES
  PADDLE_OK,          \* ocr_service.py:26-32, import probe of paddleocr
  TESSERACT_OK,       \* ocr_service.py:35-40, import probe of pytesseract
  PLUMBER_OK,         \* ocr_service.py:43-47, import probe of pdfplumber
  _paddle_singleton,  \* ocr_service.py:29, None (0) or the id of the handle
  constructed,        \* number of PaddleOCR(...) constructor calls so far
  pc,                 \* per request: "new", "reading" (await file.read()), "done"
  last                \* the most recently completed request: input, response, calls

vars == <<PADDLE_OK, TESSERACT_OK, PLUMBER_OK, _paddle_singleton, constructed, pc, last>>

None == 0

Requests == 1..NumRequests

\* ------------------------------------------------------------- strings
NL == "\n"

Whitespace == {" ", NL}

CharLen(c) == IF c = "W" THEN WordLen ELSE 1

\* len(s)
RECURSIVE StrLen(_)
StrLen(s) == IF s = <<>> THEN 0 ELSE CharLen(Head(s)) + StrLen(Tail(s))

RECURSIVE LStrip(_)
LStrip(s) == IF s # <<>> /\ Head(s) \in Whitespace THEN LStrip(Tail(s)) ELSE s

RECURSIVE RStrip(_)
RStrip(s) ==
  IF s # <<>> /\ s[Len(s)] \in Whitespace THEN RStrip(SubSeq(s, 1, Len(s) - 1)) ELSE s

\* str.strip()
Strip(s) == RStrip(LStrip(s))

\* sep.join(parts)
RECURSIVE Join(_, _)
Join(sep, parts) ==
  IF parts = <<>> THEN <<>>
  ELSE IF Len(parts) = 1 THEN parts[1]
  ELSE parts[1] \o sep \o Join(sep, Tail(parts))

\* "".join(parts)
RECURSIVE Concat(_)
Concat(parts) == IF parts = <<>> THEN <<>> ELSE Head(parts) \o Concat(Tail(parts))

\* [f(x) for x in s] for the field "text"
RECURSIVE Texts(_)
Texts(blocks) == IF blocks = <<>> THEN <<>> ELSE <<Head(blocks).text>> \o Texts(Tail(blocks))

\* str.lower() on the characters file names are built from
LowerChar(c) ==
  CASE c = "P" -> "p" [] c = "D" -> "d" [] c = "F" -> "f"
    [] c = "N" -> "n" [] c = "G" -> "g" [] c = "T" -> "t" [] c = "X" -> "x"
    [] OTHER -> c

Lower(s) == [i \in 1..Len(s) |-> LowerChar(s[i])]

\* str.endswith(suffix)
EndsWith(s, suffix) ==
  /\ Len(s) >= Len(suffix)
  /\ SubSeq(s, Len(s) - Len(suffix) + 1, Len(s)) = suffix

ImageSuffixes ==
  { <<".", "p", "n", "g">>, <<".", "j", "p", "g">>, <<".", "j", "p", "e", "g">>,
    <<".", "w", "e", "b", "p">>, <<".", "t", "i", "f">>, <<".", "t", "i", "f", "f">>,
    <<".", "b", "m", "p">> }

_guess_mime_loose(name) ==
  LET n == Lower(name) IN
  IF EndsWith(n, <<".", "p", "d", "f">>) THEN "application/pdf" ELSE "image"

_guess_mime(name) ==
  LET n == Lower(name) IN
  IF EndsWith(n, <<".", "p", "d", "f">>) THEN "application/pdf"
  ELSE IF \E sfx \in ImageSuffixes : EndsWith(n, sfx) THEN "image"
  ELSE "application/octet-stream"

\* ------------------------------------------------- float(tsv["conf"][i])
Digits == {"0", "1", "2", "3", "4", "5", "6", "7", "8", "9"}

DigitVal(c) ==
  CASE c = "0" -> 0 [] c = "1" -> 1 [] c = "2" -> 2 [] c = "3" -> 3 [] c = "4" -> 4
    [] c = "5" -> 5 [] c = "6" -> 6 [] c = "7" -> 7 [] c = "8" -> 8 [] c = "9" -> 9

RECURSIVE NatVal(_)
NatVal(s) == IF s = <<>> THEN 0 ELSE 10 * NatVal(SubSeq(s, 1, Len(s) - 1)) + DigitVal(s[Len(s)])

IsNatStr(s) == s # <<>> /\ \A i \in 1..Len(s) : s[i] \in Digits

\* float(s) on whole-number strings: ok is FALSE where float raises ValueError
ParseFloat(s) ==
  IF IsNatStr(s) THEN [ok |-> TRUE, val |-> NatVal(s)]
  ELSE IF s # <<>> /\ Head(s) = "-" /\ IsNatStr(Tail(s)) THEN [ok |-> TRUE, val |-> 0 - NatVal(Tail(s))]
  ELSE [ok |-> FALSE, val |-> 0]

\* ---------------------------------------------------------- OCR engines
\* The interpreter state a request reads and writes, threaded through the
\* calls: the shared handle, the constructor count and the calls made so far.
Call(op, page) == [op |-> op, page |-> page]

Log(st, op, page) == [st EXCEPT !.trace = Append(@, Call(op, page))]

\* b["page"] = p
SetPage(b, p) == [k \in DOMAIN b \cup {"page"} |-> IF k = "page" THEN p ELSE b[k]]

SetPages(blocks, p) == [i \in 1..Len(blocks) |-> SetPage(blocks[i], p)]

_get_paddle_fresh(st) ==
  IF ~PADDLE_OK THEN [ret |-> None, st |-> st]
  ELSE LET h == st.constructed + 1 IN
       [ret |-> h,
        st |-> Log([st EXCEPT !.singleton = h, !.constructed = h], "PaddleOCR", 0)]

_get_paddle(st) ==
  IF ~PADDLE_OK THEN [ret |-> None, st |-> st]
  ELSE IF st.singleton = None
    THEN LET h == st.constructed + 1 IN
         [ret |-> h,
          st |-> Log([st EXCEPT !.singleton = h, !.constructed = h], "PaddleOCR", 0)]
  ELSE [ret |-> st.singleton, st |-> st]

\* one line of ocr.ocr(arr)[0]: (quad, (txt, conf))
PaddleBlock(line) ==
  [text |-> line.txt,
   confidence |-> line.conf,
   bbox |-> <<line.quad[1][1], line.quad[1][2], line.quad[3][1], line.quad[3][2]>>]

_ocr_image_paddle(img, pno, st) ==
  LET g == _get_paddle(st) IN
  IF g.ret = None THEN [blocks |-> <<>>, st |-> g.st]
  ELSE [blocks |-> [i \in 1..Len(img.paddle) |-> PaddleBlock(img.paddle[i])],
        st |-> Log(g.st, "paddle", pno)]

\* try: conf = float(tsv["conf"][i])  except: conf = -1.0
TessConf(s) == LET f == ParseFloat(s) IN IF f.ok THEN f.val ELSE -1

\* conf / 100.0 if conf > 1 else 0.0, in hundredths
TessStored(conf) == IF conf > 1 THEN conf ELSE 0

TessBlock(row) ==
  [text |-> row.text,
   confidence |-> TessStored(TessConf(row.conf)),
   bbox |-> <<row.left, row.top, row.left + row.width, row.top + row.height>>]

\* if not txt or txt.strip() == "": continue
TessKeep(row) == ~(row.text = <<>> \/ Strip(row.text) = <<>>)

RECURSIVE TessRows(_)
TessRows(rows) ==
  IF rows = <<>> THEN <<>>
  ELSE IF TessKeep(Head(rows)) THEN <<TessBlock(Head(rows))>> \o TessRows(Tail(rows))
  ELSE TessRows(Tail(rows))

_ocr_image_tesseract(img, pno, st) ==
  IF ~TESSERACT_OK THEN [blocks |-> <<>>, st |-> st]
  ELSE [blocks |-> TessRows(img.tsv), st |-> Log(st, "tesseract", pno)]

HasText(b) == b.text # <<>>

_merge_blocks_to_text(blocks) == Join(<<" ">>, Texts(SelectSeq(blocks, HasText)))

\* Prefer PaddleOCR, fallback to Tesseract (the same three lines in
\* _extract_scanned_pdf and in the image branch of extract)
OcrCascade_both(img, pno, st) ==
  LET p == IF PADDLE_OK THEN _ocr_image_paddle(img, pno, st) ELSE [blocks |-> <<>>, st |-> st] IN
  IF TESSERACT_OK
    THEN LET t == _ocr_image_tesseract(img, pno, p.st) IN
         [blocks |-> p.blocks \o t.blocks, st |-> t.st]
  ELSE p

OcrCascade(img, pno, st) ==
  LET p == IF PADDLE_OK THEN _ocr_image_paddle(img, pno, st) ELSE [blocks |-> <<>>, st |-> st] IN
  IF p.blocks = <<>> /\ TESSERACT_OK THEN _ocr_image_tesseract(img, pno, p.st) ELSE p

\* ------------------------------------------------------ table extractor
\* (cell or "").strip()
CellText(cell) == IF cell.none THEN <<>> ELSE Strip(cell.str)

Matrix(rows) == [i \in 1..Len(rows) |-> [j \in 1..Len(rows[i]) |-> CellText(rows[i][j])]]

\* the body of "for t in table_sets"
RECURSIVE TablesOf(_, _)
TablesOf(table_sets, page) ==
  IF table_sets = <<>> THEN <<>>
  ELSE LET t == Head(table_sets)
           rest == TablesOf(Tail(table_sets), page) IN
       IF ~t.cells THEN rest
       ELSE IF t.rows # <<>> /\ Matrix(t.rows) # <<>>
         THEN <<[page |-> page, rows |-> Matrix(t.rows), strategy |-> "pdfplumber"]>> \o rest
       ELSE rest

\* one iteration of "for p_idx, page in enumerate(pdf.pages)": both find_tables
\* calls sit in one try block, and tables_out is appended to after both
PageTables(page, p_idx) ==
  IF ~page.find_lines.ok \/ ~page.find_text.ok THEN <<>>
  ELSE TablesOf(page.find_lines.tables \o page.find_text.tables, p_idx + 1)

RECURSIVE PlumberPages(_, _)
PlumberPages(pages, p_idx) ==
  IF p_idx >= Len(pages) THEN <<>>
  ELSE PageTables(pages[p_idx + 1], p_idx) \o PlumberPages(pages, p_idx + 1)

_extract_tables_plumber(file, st) ==
  IF ~PLUMBER_OK THEN [tables |-> <<>>, st |-> st]
  ELSE [tables |-> IF file.plumber_open THEN PlumberPages(file.plumber, 0) ELSE <<>>,
        st |-> Log(st, "pdfplumber", 0)]

\* ----------------------------------------------------------- classifier
\* page.get_text("text"): the spans of each line run together, a newline after
\* each line (PyMuPDF's plain-text output of the same blocks "dict" returns)
RECURSIVE LinesText(_)
LinesText(lines) ==
  IF lines = <<>> THEN <<>>
  ELSE Concat(Texts(Head(lines).spans)) \o <<NL>> \o LinesText(Tail(lines))

RECURSIVE PageText(_)
PageText(blocks) ==
  IF blocks = <<>> THEN <<>> ELSE LinesText(Head(blocks).lines) \o PageText(Tail(blocks))

\* sum(len(page.get_text("text")) for page in doc)
RECURSIVE Chars(_)
Chars(pages) ==
  IF pages = <<>> THEN 0 ELSE StrLen(PageText(Head(pages).dict)) + Chars(Tail(pages))

Max(a, b) == IF a >= b THEN a ELSE b

\* The ratio as a fraction num/den; min(1.0, chars / denom)
_page_text_ratio(doc) ==
  IF ~doc.text_ok THEN [num |-> 0, den |-> 1]
  ELSE LET chars == Chars(doc.pages)
           denom == Max(1, Len(doc.pages)) * 1000 IN
       IF chars >= denom THEN [num |-> 1, den |-> 1] ELSE [num |-> chars, den |-> denom]

IsDigital_ge(ratio) == 10 * ratio.num >= ratio.den

\* ratio > 0.1
IsDigital(ratio) == 10 * ratio.num > ratio.den

\* ---------------------------------------------------- digital extraction
SpanBlock(span, pno) ==
  [text |-> span.text, confidence |-> 100, bbox |-> span.bbox, page |-> pno + 1]

RECURSIVE LineBlocks(_, _)
LineBlocks(lines, pno) ==
  IF lines = <<>> THEN <<>>
  ELSE [i \in 1..Len(Head(lines).spans) |-> SpanBlock(Head(lines).spans[i], pno)]
       \o LineBlocks(Tail(lines), pno)

RECURSIVE DictBlocks(_, _)
DictBlocks(blocks, pno) ==
  IF blocks = <<>> THEN <<>>
  ELSE LineBlocks(Head(blocks).lines, pno) \o DictBlocks(Tail(blocks), pno)

RECURSIVE DigitalPages(_, _, _)
DigitalPages(pages, pno, acc) ==
  IF pno >= Len(pages) THEN acc
  ELSE LET page == pages[pno + 1] IN
       DigitalPages(pages, pno + 1,
         [text_all |-> Append(acc.text_all, PageText(page.dict)),
          blocks_all |-> acc.blocks_all \o DictBlocks(page.dict, pno)])

_extract_digital_pdf(doc) ==
  LET acc == DigitalPages(doc.pages, 0, [text_all |-> <<>>, blocks_all |-> <<>>]) IN
  [text |-> Join(<<NL>>, acc.text_all), blocks |-> acc.blocks_all, tables |-> <<>>]

\* ---------------------------------------------------- scanned extraction
\* raised: page.get_pixmap threw, and nothing in the loop catches it
RECURSIVE ScanPages(_, _, _)
ScanPages(pages, pno, acc) ==
  IF pno >= Len(pages) THEN acc
  ELSE LET page == pages[pno + 1]
           st1 == Log(acc.st, "get_pixmap", pno + 1) IN
       IF ~page.render_ok THEN [acc EXCEPT !.raised = TRUE, !.st = st1]
       ELSE LET o == OcrCascade(page.img, pno + 1, st1)
                page_text == _merge_blocks_to_text(o.blocks) IN
            ScanPages(pages, pno + 1,
              [raised |-> FALSE,
               texts |-> Append(acc.texts, page_text),
               blocks_all |-> acc.blocks_all \o SetPages(o.blocks, pno + 1),
               st |-> o.st])

_extract_scanned_pdf(doc, st) ==
  LET acc == ScanPages(doc.pages, 0,
               [raised |-> FALSE, texts |-> <<>>, blocks_all |-> <<>>, st |-> st]) IN
  [raised |-> acc.raised, text |-> Join(<<NL>>, acc.texts), blocks |-> acc.blocks_all,
   tables |-> <<>>, st |-> acc.st]

\* ------------------------------------------------------------- /extract
Ok(body) == [status |-> 200, body |-> body]

Failure(status, error) == [status |-> status, body |-> [error |-> error]]

\* An exception that leaves the handler: the server answers 500 with a plain body
Unhandled == [status |-> 500, body |-> "Internal Server Error"]

NoRatio == [num |-> 0, den |-> 0]

\* if want_tables: tables = _extract_tables_plumber(file_bytes) if PLUMBER_OK else []
TablesFor_always(file, st) ==
  IF PLUMBER_OK THEN _extract_tables_plumber(file, st) ELSE [tables |-> <<>>, st |-> st]

TablesFor(file, st) ==
  IF file.want_tables
    THEN IF PLUMBER_OK THEN _extract_tables_plumber(file, st) ELSE [tables |-> <<>>, st |-> st]
  ELSE [tables |-> <<>>, st |-> st]

ExtractPdf(file, fname, mime, st) ==
  LET doc == file.doc
      ratio == _page_text_ratio(doc)
      st1 == Log(st, "_page_text_ratio", 0)
      is_digital == IsDigital(ratio) IN
  IF is_digital
    THEN LET parsed == _extract_digital_pdf(doc)
             st2 == Log(st1, "_extract_digital_pdf", 0)
             t == TablesFor(file, st2) IN
         [response |-> Ok([file_name |-> fname, mime_type |-> mime, pages |-> Len(doc.pages),
                           is_digital_pdf |-> "True", text |-> parsed.text,
                           blocks |-> parsed.blocks, tables |-> t.tables,
                           metadata |-> [engine |-> "pymupdf"]]),
          st |-> t.st, ratio |-> ratio]
  ELSE LET parsed == _extract_scanned_pdf(doc, Log(st1, "_extract_scanned_pdf", 0)) IN
       IF parsed.raised THEN [response |-> Unhandled, st |-> parsed.st, ratio |-> ratio]
       ELSE [response |-> Ok([file_name |-> fname, mime_type |-> mime, pages |-> Len(doc.pages),
                              is_digital_pdf |-> "False", text |-> parsed.text,
                              blocks |-> parsed.blocks, tables |-> <<>>,
                              metadata |-> [engine |-> "ocr"]]),
             st |-> parsed.st, ratio |-> ratio]

ExtractImage(file, fname, mime, st) ==
  IF ~(PADDLE_OK \/ TESSERACT_OK)
    THEN [response |-> Failure(500, <<"No OCR engine available (install paddleocr or tesseract).">>),
          st |-> st, ratio |-> NoRatio]
  ELSE LET o == OcrCascade(file.img, 1, st)
           text == _merge_blocks_to_text(o.blocks) IN
       [response |-> Ok([file_name |-> fname, mime_type |-> mime, pages |-> 1,
                         is_digital_pdf |-> "None", text |-> text,
                         blocks |-> SetPages(o.blocks, 1), tables |-> <<>>,
                         metadata |-> [engine |-> "ocr"]]),
        st |-> o.st, ratio |-> NoRatio]

extract(file, st) ==
  LET fname == IF file.filename = <<>> THEN <<"uploaded">> ELSE file.filename
      mime == _guess_mime(fname) IN
  IF mime = "application/pdf" THEN ExtractPdf(file, fname, mime, st)
  ELSE IF mime = "image" THEN ExtractImage(file, fname, mime, st)
  ELSE [response |-> Failure(400, <<"Unsupported file type for ">> \o fname),
        st |-> st, ratio |-> NoRatio]

\* ------------------------------------------- simple_ocr_service /extract
\* data['conf'][i] / 100.0: a value pytesseract left as a string raises TypeError
RECURSIVE SimpleRows(_)
SimpleRows(rows) ==
  IF rows = <<>> THEN [raised |-> FALSE, blocks |-> <<>>]
  ELSE LET row == Head(rows)
           text == Strip(row.text)
           conf == ParseFloat(row.conf)
           rest == SimpleRows(Tail(rows)) IN
       IF text = <<>> THEN rest
       ELSE IF ~conf.ok \/ rest.raised THEN [raised |-> TRUE, blocks |-> <<>>]
       ELSE [raised |-> FALSE,
             blocks |-> <<[text |-> text,
                           bbox |-> <<row.left, row.top, row.left + row.width, row.top + row.height>>,
                           confidence |-> conf.val,
                           page |-> 1]>> \o rest.blocks]

Simple_ocr_image_tesseract(img) ==
  IF ~TESSERACT_OK THEN <<>>
  ELSE LET r == SimpleRows(img.tsv) IN IF r.raised THEN <<>> ELSE r.blocks

StripHasText(b) == Strip(b.text) # <<>>

Simple_merge_blocks_to_text(blocks) == Join(<<NL>>, Texts(SelectSeq(blocks, StripHasText)))

extract_text(file) ==
  LET fname == IF file.filename = <<>> THEN <<"unknown">> ELSE file.filename
      mime == IF file.content_type = <<>> THEN <<"application/", "octet-stream">>
              ELSE file.content_type IN
  IF Head(mime) = "image/"
    THEN IF ~TESSERACT_OK THEN Failure(500, <<"Tesseract OCR not available">>)
         ELSE LET blocks == Simple_ocr_image_tesseract(file.img) IN
              Ok([file_name |-> fname, mime_type |-> mime, pages |-> 1,
                  is_digital_pdf |-> "None", text |-> Simple_merge_blocks_to_text(blocks),
                  blocks |-> blocks, tables |-> <<>>, metadata |-> [engine |-> "tesseract"]])
  ELSE IF mime = <<"application/", "pdf">>
    THEN Failure(501, <<"PDF processing not available (PyMuPDF not installed)">>)
  ELSE Failure(400, <<"Unsupported file type: ">> \o mime)

\* ------------------------------------------------------------- inputs
SeqsUpTo(S, n) == UNION {[1..k -> S] : k \in 0..n}

Span(t) == [text |-> t, bbox |-> <<0, 0, 1, 1>>]

OneLine(texts) == <<[lines |-> <<[spans |-> [i \in 1..Len(texts) |-> Span(texts[i])]]>>]>>

\* what page.get_text("dict") returns for the pages drawn
Dicts ==
  { <<>>,
    OneLine(<<<<"a">>>>),
    OneLine(<<<<"W">>>>),
    OneLine(<<<<"W">>, <<"a">>>>),
    OneLine(<<<<"W">>, <<" ">>, <<"a">>>>),
    <<[lines |-> <<[spans |-> <<Span(<<"W">>)>>], [spans |-> <<Span(<<"a", "a">>)>>]>>]>> }

PaddleLine(txt, conf) ==
  [quad |-> <<<<1, 2>>, <<5, 2>>, <<5, 4>>, <<1, 4>>>>, txt |-> txt, conf |-> conf]

TsvRow(text, conf) == [text |-> text, conf |-> conf, left |-> 1, top |-> 2, width |-> 3, height |-> 4]

BlankRaster == [paddle |-> <<>>, tsv |-> <<>>]

PaddleResults ==
  { <<>>, <<PaddleLine(<<"a">>, 90)>>, <<PaddleLine(<<"a">>, 0), PaddleLine(<<"b", " ", "c">>, 100)>> }

TsvResults ==
  { <<>>,
    <<TsvRow(<<>>, <<"-", "1">>), TsvRow(<<"a">>, <<"8", "7">>)>>,
    <<TsvRow(<<"a">>, <<"n", "/", "a">>), TsvRow(<<" ">>, <<"9", "5">>)>>,
    <<TsvRow(<<"a">>, <<"1">>), TsvRow(<<"b">>, <<"1", "0", "0">>)>>,
    <<TsvRow(<<"a">>, <<"0">>), TsvRow(<<"b">>, <<"2">>)>> }

Rasters == [paddle : PaddleResults, tsv : TsvResults]

TextPage(d) == [dict |-> d, render_ok |-> TRUE, img |-> BlankRaster]

ScanPage(ok, img) == [dict |-> <<>>, render_ok |-> ok, img |-> img]

Cell(s) == [none |-> FALSE, str |-> s]

NoCell == [none |-> TRUE, str |-> <<>>]

TableA == [cells |-> TRUE, rows |-> <<<<Cell(<<" ", "a", " ">>), NoCell>>>>]

TableB == [cells |-> TRUE, rows |-> <<<<Cell(<<"b">>)>>, <<Cell(<<"c">>)>>>>]

TableNoCells == [cells |-> FALSE, rows |-> <<>>]

Found(tables) == [ok |-> TRUE, tables |-> tables]

Failed == [ok |-> FALSE, tables |-> <<>>]

NoTables == [find_lines |-> Found(<<>>), find_text |-> Found(<<>>)]

PlumberPagesIn ==
  [find_lines : {Failed, Found(<<>>), Found(<<TableA>>), Found(<<TableNoCells, TableA>>)},
   find_text : {Failed, Found(<<>>), Found(<<TableB>>)}]

PdfName == <<"d", "o", "c", ".", "P", "D", "F">>

ImageName == <<"s", "c", "a", "n", ".", "p", "n", "g">>

TextName == <<"n", "o", "t", "e", "s", ".", "t", "x", "t">>

BareName == <<"p", "d", "f">>

UnsupportedNames == {TextName, BareName}

ContentType(name) ==
  IF name = PdfName THEN <<"application/", "pdf">>
  ELSE IF name = ImageName THEN <<"image/", "png">>
  ELSE <<"text/", "plain">>

Pdf(pages, text_ok, want, open, plumber) ==
  [filename |-> PdfName, content_type |-> ContentType(PdfName), want_tables |-> want,
   doc |-> [pages |-> pages, text_ok |-> text_ok],
   plumber_open |-> open, plumber |-> plumber, img |-> BlankRaster]

NoDoc == [pages |-> <<>>, text_ok |-> TRUE]

Upload(name, img) ==
  [filename |-> name, content_type |-> ContentType(name), want_tables |-> TRUE,
   doc |-> NoDoc, plumber_open |-> TRUE, plumber |-> <<>>, img |-> img]

NoTablesFor(pages) == [i \in 1..Len(pages) |-> NoTables]

\* the uploads of the concurrent service: every branch of the handler
CoreRasters ==
  { [paddle |-> <<PaddleLine(<<"a">>, 90)>>, tsv |-> <<TsvRow(<<"b">>, <<"8", "7">>)>>],
    [paddle |-> <<>>, tsv |-> <<TsvRow(<<"b">>, <<"8", "7">>)>>] }

CoreFiles ==
  { Pdf(<<TextPage(OneLine(<<<<"W">>, <<"a">>>>))>>, TRUE, want, TRUE,
        <<[find_lines |-> Found(<<TableA>>), find_text |-> Found(<<>>)]>>) : want \in BOOLEAN }
  \cup { Pdf(pages, TRUE, TRUE, TRUE, NoTablesFor(pages)) :
           pages \in SeqsUpTo({ScanPage(TRUE, img) : img \in CoreRasters}, MaxPages) }
  \cup { Upload(ImageName, img) : img \in CoreRasters }
  \cup { Upload(name, img) : name \in UnsupportedNames, img \in CoreRasters }

\* scanned PDFs and images: what the two engines return, pages that fail to render
OcrPages == {ScanPage(TRUE, img) : img \in Rasters} \cup {ScanPage(FALSE, BlankRaster)}

OcrFiles ==
  { Pdf(pages, TRUE, TRUE, TRUE, NoTablesFor(pages)) : pages \in SeqsUpTo(OcrPages, MaxPages) }
  \cup { Upload(ImageName, img) : img \in Rasters }

\* PDFs with selectable text: what the classifier and the digital strategy read
TextFiles ==
  { Pdf(pages, text_ok, FALSE, TRUE, NoTablesFor(pages)) :
      pages \in SeqsUpTo({TextPage(d) : d \in Dicts}, MaxPages), text_ok \in BOOLEAN }

\* digital PDFs: what pdfplumber finds on each page under each strategy
DigitalDoc(n) == [i \in 1..n |-> TextPage(OneLine(<<<<"W">>, <<"a">>>>))]

TableFiles ==
  { Pdf(DigitalDoc(Len(plumber)), TRUE, want, open, plumber) :
      plumber \in SeqsUpTo(PlumberPagesIn, MaxPages) \ {<<>>},
      want \in BOOLEAN, open \in BOOLEAN }

\* ------------------------------------------------------------- actions
NoRequest ==
  [service |-> "none", file |-> Upload(TextName, BlankRaster), response |-> Unhandled,
   trace |-> <<>>, ratio |-> NoRatio]

Init ==
  /\ PADDLE_OK \in BOOLEAN
  /\ TESSERACT_OK \in BOOLEAN
  /\ PLUMBER_OK \in BOOLEAN
  /\ _paddle_singleton = None
  /\ constructed = 0
  /\ pc = [r \in Requests |-> "new"]
  /\ last = NoRequest

\* a request reaches the handler and waits in "await file.read()"
Arrive(r) ==
  /\ pc[r] = "new"
  /\ pc' = [pc EXCEPT ![r] = "reading"]
  /\ UNCHANGED <<PADDLE_OK, TESSERACT_OK, PLUMBER_OK, _paddle_singleton, constructed, last>>

\* the rest of the handler: no await in it, so it runs to its response in one step
Extract(r, files) ==
  /\ pc[r] = "reading"
  /\ \E file \in files :
       LET out == extract(file, [singleton |-> _paddle_singleton,
                                 constructed |-> constructed, trace |-> <<>>]) IN
       /\ _paddle_singleton' = out.st.singleton
       /\ constructed' = out.st.constructed
       /\ last' = [service |-> "ocr", file |-> file, response |-> out.response,
                   trace |-> out.st.trace, ratio |-> out.ratio]
  /\ pc' = [pc EXCEPT ![r] = "done"]
  /\ UNCHANGED <<PADDLE_OK, TESSERACT_OK, PLUMBER_OK>>

\* the response is sent and its record dropped; the next request takes the slot
Close(r) ==
  /\ pc[r] = "done"
  /\ pc' = [pc EXCEPT ![r] = "new"]
  /\ last' = NoRequest
  /\ UNCHANGED <<PADDLE_OK, TESSERACT_OK, PLUMBER_OK, _paddle_singleton, constructed>>

\* the handler of the simple service, after its "await file.read()"
SimpleExtract(r, files) ==
  /\ pc[r] = "reading"
  /\ \E file \in files :
       last' = [service |-> "simple", file |-> file, response |-> extract_text(file),
                trace |-> <<>>, ratio |-> NoRatio]
  /\ pc' = [pc EXCEPT ![r] = "done"]
  /\ UNCHANGED <<PADDLE_OK, TESSERACT_OK, PLUMBER_OK, _paddle_singleton, constructed>>

\* concurrent requests to /extract
Next ==
  \/ \E r \in Requests : Arrive(r)
  \/ \E r \in Requests : Extract(r, CoreFiles)
  \/ \E r \in Requests : Close(r)

Spec == Init /\ [][Next]_vars

\* one request after another, scanned PDFs and images, to either service
NextOcr ==
  \/ Arrive(1)
  \/ Extract(1, OcrFiles)
  \/ SimpleExtract(1, {f \in OcrFiles : f.filename = ImageName} \cup CoreFiles)
  \/ Close(1)

SpecOcr == Init /\ [][NextOcr]_vars

\* one request after another, PDFs with selectable text
NextText ==
  \/ Arrive(1)
  \/ Extract(1, TextFiles)
  \/ Close(1)

SpecText == Init /\ [][NextText]_vars

\* one request after another, digital PDFs with tables
NextTables ==
  \/ Arrive(1)
  \/ Extract(1, TableFiles)
  \/ Close(1)

SpecTables == Init /\ [][NextTables]_vars

\* ------------------------------------------------------------ properties
Resp == last.response

Body == last.response.body

FromOcr == last.service = "ocr"

Answered == last.service # "none" /\ Resp.status = 200

IsPdf == _guess_mime(last.file.filename) = "application/pdf"

BlocksOn(p) == SelectSeq(Body.blocks, LAMBDA b : b.page = p)

Invoked(op) == \E i \in 1..Len(last.trace) : last.trace[i].op = op

InvokedOn(op, p) == \E i \in 1..Len(last.trace) : last.trace[i] = Call(op, p)

\* the raster the cascade was given for page p
PageImage(p) == IF IsPdf THEN last.file.doc.pages[p].img ELSE last.file.img

Primary(img, p) == SetPages([i \in 1..Len(img.paddle) |-> PaddleBlock(img.paddle[i])], p)

Secondary(img, p) == SetPages(TessRows(img.tsv), p)

CascadeResult(img, p) ==
  IF PADDLE_OK /\ img.paddle # <<>> THEN Primary(img, p)
  ELSE IF TESSERACT_OK THEN Secondary(img, p)
  ELSE <<>>

OcrAnswered == FromOcr /\ Resp.status = 200 /\ Body.metadata.engine = "ocr"

\* C1: on every successful /extract response, text is the page-order join of
\* the blocks' texts: newline-joined on the digital path; on the scanned and
\* image path each page's blocks joined by a space and the pages by newline.
TextEqualsJoinedBlocks ==
  FromOcr /\ Resp.status = 200 =>
    IF Body.is_digital_pdf = "True"
      THEN Body.text = Join(<<NL>>, Texts(Body.blocks))
    ELSE Body.text = Join(<<NL>>, [p \in 1..Body.pages |-> Join(<<" ">>, Texts(BlocksOn(p)))])

\* C2: every block of every response, of either service, has text that is
\* non-empty after trimming and a confidence between 0 and 1 (0..100 hundredths).
BlocksWellFormed ==
  Answered =>
    \A i \in 1..Len(Body.blocks) :
      /\ Strip(Body.blocks[i].text) # <<>>
      /\ Body.blocks[i].confidence >= 0
      /\ Body.blocks[i].confidence <= 100

\* C3: for every page given to the cascade, the page's blocks are the primary
\* engine's output when it is available and returned a block, otherwise the
\* secondary's when it is available, otherwise none; the secondary is not
\* invoked when the primary returned blocks, so no page mixes the two.
CascadeOneEngine ==
  OcrAnswered =>
    \A p \in 1..Body.pages :
      LET img == PageImage(p) IN
      /\ BlocksOn(p) = CascadeResult(img, p)
      /\ BlocksOn(p) \in {Primary(img, p), Secondary(img, p), <<>>}
      /\ (PADDLE_OK /\ img.paddle # <<>> => ~InvokedOn("tesseract", p))
      /\ (InvokedOn("tesseract", p) => BlocksOn(p) = Secondary(img, p))

CascadeFellBackOnSecondPage ==
  /\ OcrAnswered
  /\ Body.pages = 2
  /\ InvokedOn("paddle", 1) /\ ~InvokedOn("tesseract", 1)
  /\ InvokedOn("paddle", 2) /\ InvokedOn("tesseract", 2)
  /\ BlocksOn(1) = Primary(PageImage(1), 1) /\ BlocksOn(1) # <<>>
  /\ BlocksOn(2) = Secondary(PageImage(2), 2) /\ BlocksOn(2) # <<>>
  /\ PageImage(1).tsv # <<>>

Outcome(p, s) == IF s = "lines" THEN last.file.plumber[p].find_lines ELSE last.file.plumber[p].find_text

\* C4: in table extraction, the tables a strategy finds on a page appear in
\* the output whenever that strategy did not fail there, whatever the other
\* strategy did on the page and whatever happened on other pages.
StrategyFailureContained ==
  FromOcr /\ Resp.status = 200 /\ Invoked("pdfplumber") /\ last.file.plumber_open =>
    \A p \in 1..Len(last.file.plumber) : \A s \in {"lines", "text"} :
      Outcome(p, s).ok =>
        LET found == TablesOf(Outcome(p, s).tables, p) IN
        \A i \in 1..Len(found) : \E j \in 1..Len(Body.tables) : Body.tables[j] = found[i]

\* C5: on the scanned-PDF path a page whose rendering throws contributes no
\* blocks, every other page contributes its blocks, and the request succeeds.
RenderFailureContained ==
  FromOcr /\ IsPdf /\ ~IsDigital(last.ratio) =>
    /\ Resp.status = 200
    /\ \A p \in 1..Len(last.file.doc.pages) :
         BlocksOn(p) = IF last.file.doc.pages[p].render_ok THEN CascadeResult(PageImage(p), p)
                       ELSE <<>>

\* the confidence C6 expects for a native value, in hundredths
ExpectedConfidence(s) == IF IsNatStr(s) THEN NatVal(s) ELSE 0

\* C6: every block of the secondary engine in ocr_service stores the native
\* confidence divided by 100 when it is a number on the scale 0..100, and 0.0
\* when it does not parse.
SecondaryConfidenceScaled ==
  OcrAnswered =>
    \A p \in 1..Body.pages :
      InvokedOn("tesseract", p) =>
        LET kept == SelectSeq(PageImage(p).tsv, TessKeep)
            got == BlocksOn(p) IN
        /\ Len(got) = Len(kept)
        /\ \A i \in 1..Len(got) : got[i].confidence = ExpectedConfidence(kept[i].conf)

\* C7: the table extractor is invoked only for a PDF classified digital with
\* want_tables true and the table capability available; whenever it is not
\* invoked the response has no tables.
TablesOnlyOnRequest ==
  FromOcr =>
    /\ Invoked("pdfplumber") =>
         /\ IsPdf /\ Resp.status = 200 /\ Body.is_digital_pdf = "True"
         /\ last.file.want_tables
         /\ PLUMBER_OK
    /\ (Resp.status = 200 /\ ~Invoked("pdfplumber") => Body.tables = <<>>)

TablesNotWanted ==
  /\ FromOcr /\ Resp.status = 200 /\ Body.is_digital_pdf = "True"
  /\ ~last.file.want_tables /\ PLUMBER_OK
  /\ PlumberPages(last.file.plumber, 0) # <<>>
  /\ ~Invoked("pdfplumber")
  /\ Body.tables = <<>>

Min(a, b) == IF a <= b THEN a ELSE b

RatioLeq(a, b) == a.num * b.den <= b.num * a.den

\* C8: the verdict is digital exactly when C > 100 * max(1, P); the ratio is
\* min(1, C / (max(1, P) * 1000)) and does not decrease when C grows for the
\* same P, so more characters never turn digital into scanned; no pages or a
\* read failure give ratio 0 and the verdict scanned.
ClassifierThreshold ==
  FromOcr /\ IsPdf =>
    LET doc == last.file.doc
        P == Len(doc.pages)
        C == Chars(doc.pages)
        D == Max(1, P) * 1000
        digital == Resp.status = 200 /\ Body.is_digital_pdf = "True" IN
    /\ Resp.status = 200
    /\ Body.is_digital_pdf \in {"True", "False"}
    /\ (doc.text_ok => last.ratio.num * D = last.ratio.den * Min(C, D))
    /\ (digital <=> doc.text_ok /\ C > 100 * Max(1, P))
    /\ (P = 0 \/ ~doc.text_ok => last.ratio.num = 0 /\ ~digital)
    /\ \A g \in TextFiles :
         Len(g.doc.pages) = P /\ g.doc.text_ok /\ doc.text_ok /\ Chars(g.doc.pages) >= C =>
           /\ RatioLeq(last.ratio, _page_text_ratio(g.doc))
           /\ (digital => IsDigital(_page_text_ratio(g.doc)))

DigitalJustOverThreshold ==
  /\ FromOcr /\ IsPdf /\ Resp.status = 200
  /\ Body.is_digital_pdf = "True"
  /\ Len(last.file.doc.pages) = 2
  /\ Chars(last.file.doc.pages) <= 100 * 2 + 2

\* C9: a request whose file is neither a pdf nor an image is answered 400 with
\* an error string, and nothing was invoked for it: not the classifier, an OCR
\* engine, the table extractor or the construction of the primary handle.
UnsupportedRejected ==
  FromOcr /\ last.file.filename \in UnsupportedNames =>
    /\ Resp.status = 400
    /\ DOMAIN Body = {"error"}
    /\ Body.error # <<>>
    /\ last.trace = <<>>

UnsupportedWithEnginesIdle ==
  /\ FromOcr /\ last.file.filename = TextName
  /\ Resp.status = 400
  /\ PADDLE_OK /\ TESSERACT_OK /\ PLUMBER_OK
  /\ last.file.img.paddle # <<>>
  /\ _paddle_singleton = None

\* C10: over every interleaving of requests the primary handle is not built at
\* startup, is built only by the first primary OCR call while the capability
\* is available, at most once, and once set is never replaced or reset.
HandleBuiltOnce ==
  /\ _paddle_singleton = None /\ constructed = 0
  /\ [][/\ constructed' <= 1
        /\ (_paddle_singleton # None => _paddle_singleton' = _paddle_singleton)
        /\ (constructed' # constructed =>
              /\ _paddle_singleton = None /\ _paddle_singleton' # None
              /\ constructed' = constructed + 1
              /\ PADDLE_OK
              /\ \E i \in 1..Len(last'.trace) - 1 :
                   /\ last'.trace[i].op = "PaddleOCR"
                   /\ last'.trace[i + 1].op = "paddle")
        /\ (_paddle_singleton' # _paddle_singleton => constructed' # constructed)]_vars

HandleReused ==
  /\ FromOcr /\ Invoked("paddle") /\ ~Invoked("PaddleOCR")
  /\ constructed = 1
  /\ _paddle_singleton = 1
  /\ \A r \in Requests : pc[r] = "done"

====
